---- MODULE Spec2Model ----
(***************************************************************************)
(* Model of src/script.js: the fetch / classify / paginate loop of         *)
(* fetchPosts, with getAccessToken and the status bar it writes to.        *)
(*                                                                         *)
(* A run of fetchPosts is a record of its local variables plus its         *)
(* position (pc).  The environment (token endpoint, listing endpoint, the  *)
(* operator answering window.confirm) is chosen nondeterministically at    *)
(* the step that consumes it.                                              *)
(***************************************************************************)
EXTENDS Integers, Sequences, FiniteSets, TLC

\* ------------------------------------------------------------------ bounds
MaxLimit == 2
MaxBatch == 2

\* --------------------------------------------------------- JS values, strings
\* Strings the code inspects character by character are sequences of
\* one-character strings.  Undefined stands for a field that is absent.
Null == "null"
Undefined == <<"undefined">>

UpperChars == <<"A","B","C","D","E","F","G","H","I","J","K","L","M",
                "N","O","P","Q","R","S","T","U","V","W","X","Y","Z">>
LowerChars == <<"a","b","c","d","e","f","g","h","i","j","k","l","m",
                "n","o","p","q","r","s","t","u","v","w","x","y","z">>

\* Characters outside ASCII are written by their code point, one character
\* each.  Three cased letters are followed exactly: E with acute (U+00C9,
\* lower case U+00E9), I with dot above (U+0130, whose lower case is the two
\* characters i, U+0307) and the Kelvin sign (U+212A, lower case k); the
\* last two are the only characters outside ASCII whose lower case holds an
\* ASCII character.
OtherCased == <<"U+00C9", "U+0130", "U+212A">>
OtherLower == <<<<"U+00E9">>, <<"i", "U+0307">>, <<"k">>>>

\* The lower case of every cased character that is followed exactly: a
\* string of one character, or of two
LowerOf ==
    [c \in {UpperChars[i] : i \in DOMAIN UpperChars}
            \cup {OtherCased[i] : i \in DOMAIN OtherCased} |->
        IF \E i \in DOMAIN UpperChars : UpperChars[i] = c
        THEN <<LowerChars[CHOOSE i \in DOMAIN UpperChars : UpperChars[i] = c]>>
        ELSE OtherLower[CHOOSE i \in DOMAIN OtherCased : OtherCased[i] = c]]

\* The characters toLowerCase leaves as they are, among those followed
\* exactly: the rest of printable ASCII (but for the grave accent, which
\* cannot be written in a string here and counts as any other character),
\* and the two characters outside ASCII that are lower-case results above
Unchanged ==
    {LowerChars[i] : i \in DOMAIN LowerChars}
    \cup {"0","1","2","3","4","5","6","7","8","9"}
    \cup {" ","!","\"","#","$","%","&","'","(",")","*","+",",","-",".","/",
          ":",";","<","=",">","?","@","[","\\","]","^","_","{","|","}","~"}
    \cup {"U+00E9", "U+0307"}

\* Any other character (every other code point outside ASCII, cased or
\* not, and the control characters).  Which one it is is not followed: the
\* lower case of such a character is one such character again, never an
\* ASCII letter, digit, dot or question mark.
SomeOther == "U+...."

\* The lower case of one character, as a string
LowerChar(c) ==
    IF c \in DOMAIN LowerOf THEN LowerOf[c]
    ELSE IF c \in Unchanged THEN <<c>>
    ELSE <<SomeOther>>

RECURSIVE toLowerCase(_)
\* String.prototype.toLowerCase
toLowerCase(s) ==
    IF s = <<>> THEN <<>>
    ELSE LowerChar(Head(s)) \o toLowerCase(Tail(s))

\* s.split('?')[0]: everything before the first '?'
SplitQuery0(s) ==
    IF \E i \in DOMAIN s : s[i] = "?"
    THEN SubSeq(s, 1, (CHOOSE i \in DOMAIN s :
                          /\ s[i] = "?"
                          /\ \A j \in 1..(i-1) : s[j] # "?") - 1)
    ELSE s

\* String.prototype.endsWith
endsWith(s, suffix) ==
    /\ Len(s) >= Len(suffix)
    /\ SubSeq(s, Len(s) - Len(suffix) + 1, Len(s)) = suffix

ExtGif  == <<".","g","i","f">>
ExtJpg  == <<".","j","p","g">>
ExtJpeg == <<".","j","p","e","g">>
ExtPng  == <<".","p","n","g">>

\* lines 64 / 83: lowercase, query removed
UrlLower(u) == SplitQuery0(toLowerCase(u))

\* lines 67-72 / 84-89: the four endsWith tests
HasImageExt(lower) ==
    \/ endsWith(lower, ExtGif)
    \/ endsWith(lower, ExtJpg)
    \/ endsWith(lower, ExtJpeg)
    \/ endsWith(lower, ExtPng)

\* JS truthiness of a string-or-undefined value
Truthy(u) == u # Undefined /\ u # <<>>

\* PreviewUrl preferring the animated variant over the source
PreviewUrlGifFirst(post) ==
    IF Truthy(post.gif) THEN post.gif
    ELSE IF Truthy(post.source) THEN post.source
    ELSE <<>>

\* lines 80-82: post.preview?.images?.[0]?.source?.url ||
\*              post.preview?.images?.[0]?.variants?.gif?.source?.url || ''
PreviewUrl(post) ==
    IF Truthy(post.source) THEN post.source
    ELSE IF Truthy(post.gif) THEN post.gif
    ELSE <<>>

\* ------------------------------------------------------- listing items
UrlJpgQuery == <<"a",".","J","P","G","?","x">>
UrlHtml     == <<"a",".","h","t","m","l">>
UrlPngQuery == <<"b",".","p","n","g","?","w">>

\* A listing item as the API returns it (child.data): url, the two
\* preview addresses the code looks at (images[0].source.url and
\* images[0].variants.gif.source.url), and the title.
ItemDirect  == [url |-> UrlJpgQuery, source |-> Undefined,   gif |-> Undefined, title |-> <<"t">>]
ItemPreview == [url |-> UrlHtml,     source |-> UrlPngQuery, gif |-> Undefined, title |-> <<"t">>]
ItemPlain   == [url |-> UrlHtml,     source |-> Undefined,   gif |-> Undefined, title |-> <<"t">>]
ItemNoUrl   == [url |-> Undefined,   source |-> Undefined,   gif |-> Undefined, title |-> <<"t">>]

ItemKinds == {ItemDirect, ItemPreview, ItemPlain, ItemNoUrl}

\* A wider set of items for the classification of a single page: every
\* extension, an extension followed by more characters, an extension that
\* occurs only in the query, empty addresses, and the combinations of the
\* two preview addresses.
UrlGif      == <<"c",".","g","i","f">>
UrlJpeg     == <<"d",".","j","p","e","g">>
UrlPngx     == <<"e",".","p","n","g","x">>
UrlQueryPng == <<"f","?","g",".","p","n","g">>

ItemGif           == [url |-> UrlGif,      source |-> Undefined,   gif |-> Undefined, title |-> <<"t">>]
ItemJpegOverHtml  == [url |-> UrlJpeg,     source |-> UrlHtml,     gif |-> Undefined, title |-> <<"t">>]
ItemPngx          == [url |-> UrlPngx,     source |-> Undefined,   gif |-> Undefined, title |-> <<"t">>]
ItemQueryPng      == [url |-> UrlQueryPng, source |-> Undefined,   gif |-> Undefined, title |-> <<"t">>]
ItemEmptyUrlGif   == [url |-> <<>>,        source |-> Undefined,   gif |-> UrlGif, title |-> <<"t">>]
ItemEmptySource   == [url |-> UrlHtml,     source |-> <<>>,        gif |-> UrlJpeg, title |-> <<"t">>]
ItemHtmlSourceGif == [url |-> UrlHtml,     source |-> UrlHtml,     gif |-> UrlGif, title |-> <<"t">>]
ItemSourceAndGif  == [url |-> UrlHtml,     source |-> UrlPngQuery, gif |-> UrlGif, title |-> <<"t">>]
ItemDirectPreview == [url |-> UrlJpgQuery, source |-> UrlPngQuery, gif |-> Undefined, title |-> <<"t">>]
ItemSourceQuery   == [url |-> UrlHtml,     source |-> UrlQueryPng, gif |-> Undefined, title |-> <<"t">>]
ItemGifPngx       == [url |-> UrlHtml,     source |-> Undefined,   gif |-> UrlPngx, title |-> <<"t">>]
ItemEmptyUrl      == [url |-> <<>>,        source |-> Undefined,   gif |-> Undefined, title |-> <<"t">>]

\* Addresses with letters outside ASCII: an accented name, two letters
\* whose lower case holds an ASCII letter next to an extension, and a name
\* with a letter that is not followed exactly (capital sigma)
UrlAccentJpg == <<"U+00C9",".","J","P","G">>
UrlDottedGif == <<"a",".","G","U+0130","F">>
UrlKelvinPng == <<"a",".","P","N","G","U+212A">>

UrlSigmaPng  == <<"U+03A3",".","P","N","G">>

ItemAccentJpg == [url |-> UrlAccentJpg, source |-> Undefined, gif |-> Undefined, title |-> <<"t">>]
ItemDottedGif == [url |-> UrlDottedGif, source |-> Undefined, gif |-> Undefined, title |-> <<"t">>]
ItemKelvinPng == [url |-> UrlKelvinPng, source |-> Undefined, gif |-> Undefined, title |-> <<"t">>]
ItemSigmaPng  == [url |-> UrlSigmaPng,  source |-> Undefined, gif |-> Undefined, title |-> <<"t">>]

ClassifyItems ==
    ItemKinds \cup
    {ItemGif, ItemJpegOverHtml, ItemPngx, ItemQueryPng, ItemEmptyUrlGif,
     ItemEmptySource, ItemHtmlSourceGif, ItemSourceAndGif, ItemDirectPreview,
     ItemSourceQuery, ItemGifPngx, ItemEmptyUrl,
     ItemAccentJpg, ItemDottedGif, ItemKelvinPng, ItemSigmaPng}

\* A post with an image address and no title
ItemNoTitle ==
    [url |-> UrlJpgQuery, source |-> Undefined, gif |-> Undefined,
     title |-> Undefined]

\* The longest page of the single-page specification
MaxPage == MaxBatch + 1

\* Responses of the token endpoint: a token, a body without access_token,
\* a body with an error field, a transport failure.
TokenResponses == {"ok", "missing", "error", "fail"}

\* data.data.after of a page: null at the end of the listing
Cursors == {Null, "t3_next"}

\* Responses of the listing endpoint: a body with an error field, a
\* transport failure, or a page of `length` children.  The content of
\* child i and the page's next cursor are drawn (from ItemKinds, Cursors)
\* at the step that first reads them: the for loop reads the children in
\* order, line 125 reads the cursor, and what has not been read yet has no
\* effect on the run before that.
PageResponses ==
    {[kind |-> "error", length |-> 0],
     [kind |-> "fail",  length |-> 0]}
    \cup
    {[kind |-> "ok", length |-> n] : n \in 0..MaxBatch}

\* ------------------------------------------------------------------ state
VARIABLES
    run,        \* run[r]: the locals and position of the r-th fetchPosts call
    statusBar,  \* the status bar: last updateStatus(message, isError)
    statusLog,  \* every status updateStatus has been called with so far
    feedContainer,  \* the children of #feed-container
    nonMediaList,   \* the children of #non-media-items
    detached,       \* the images displayMedia created that are not in the
                    \* document (removed by a later call, or never appended)
    imageErrors     \* the error events images have fired so far

vars == <<run, statusBar, statusLog, feedContainer, nonMediaList,
          detached, imageErrors>>

\* The two elements displayMedia renders into, and the images it created
dom == <<feedContainer, nonMediaList, detached, imageErrors>>

\* The calls of fetchPosts (line 169); each has its own locals.
Runs == {1}

\* lines 1-5
updateStatus(message, isError) == [message |-> message, isError |-> isError]

EmptyResult == [mediaPosts |-> <<>>, nonMediaPosts |-> <<>>]

IdleRun ==
    [pc |-> "idle", limit |-> 0, token |-> Null,
     mediaPosts |-> <<>>, nonMediaPosts |-> <<>>,
     after |-> "", requestCount |-> 0, maxRequests |-> 0,
     posts |-> <<>>, postsLength |-> 0, idx |-> 0,
     result |-> EmptyResult, exit |-> "none", error |-> "",
     \* history, not read by the code
     tokenCalls |-> 0, fetchCalls |-> 0, prompts |-> 0, approvals |-> 0,
     delays |-> 0, arrived |-> <<>>, emptyPage |-> FALSE,
     overlapped |-> FALSE, rendered |-> "none"]

Init ==
    /\ run = [r \in Runs |-> IdleRun]
    /\ statusBar = updateStatus(<<>>, FALSE)
    /\ statusLog = {}
    /\ feedContainer = <<>>
    /\ nonMediaList = <<>>
    /\ detached = {}
    /\ imageErrors = 0

\* The statuses emitted by one step, applied in order.
Emit(msgs) ==
    /\ statusLog' = statusLog \cup {msgs[i] : i \in DOMAIN msgs}
    /\ statusBar' = IF msgs = <<>> THEN statusBar ELSE msgs[Len(msgs)]

\* ------------------------------------------------- fetchPosts, step by step
\* A step of a run yields the run's new locals and the statuses it emitted.
Step(rho, msgs) == [run |-> rho, msgs |-> msgs]

\* Apply with the locals of fetchPosts shared by all its calls
ApplyShared(r, out) ==
    /\ run' = [q \in DOMAIN run |->
                 IF q = r THEN out.run
                 ELSE [run[q] EXCEPT !.mediaPosts = out.run.mediaPosts,
                                     !.nonMediaPosts = out.run.nonMediaPosts,
                                     !.after = out.run.after,
                                     !.requestCount = out.run.requestCount]]
    /\ Emit(out.msgs)
    /\ UNCHANGED dom

\* lines 36-39: mediaPosts, nonMediaPosts, after and requestCount are
\* declared inside fetchPosts, so a step of call r changes the locals of
\* call r only; fetchPosts does not touch the two rendered elements
Apply(r, out) ==
    /\ run' = [run EXCEPT ![r] = out.run]
    /\ Emit(out.msgs)
    /\ UNCHANGED dom

Max(a, b) == IF a >= b THEN a ELSE b

\* line 40
MaxRequests(limit) == IF limit = 1 THEN 3 ELSE Max(3, limit * 3)

\* LoopCondition with an off-by-one budget test (requestCount <= maxRequests)
LoopConditionOffByOne(rho) ==
    /\ Len(rho.mediaPosts) < rho.limit
    /\ rho.requestCount <= rho.maxRequests

\* LoopCondition leaving the loop one request before the budget is used up
LoopConditionStopsEarly(rho) ==
    /\ Len(rho.mediaPosts) < rho.limit
    /\ rho.requestCount < rho.maxRequests - 1

\* line 48: the while condition
LoopCondition(rho) ==
    /\ Len(rho.mediaPosts) < rho.limit
    /\ rho.requestCount < rho.maxRequests

\* The block-scoped locals of the while body are gone once the loop is left.
LeaveLoop(rho) ==
    [rho EXCEPT !.posts = <<>>, !.postsLength = 0, !.idx = 0]

\* lines 134-135: the normal return
Return(rho) ==
    Step([LeaveLoop(rho) EXCEPT
                     !.pc = "returned", !.exit = "normal",
                     !.result = [mediaPosts |-> rho.mediaPosts,
                                 nonMediaPosts |-> rho.nonMediaPosts]],
         <<updateStatus(<<"Successfully fetched ", Len(rho.mediaPosts),
                          " image posts">>, FALSE)>>)

\* CatchResult handing back the lists built so far
CatchResultKeepsLists(mediaPosts, nonMediaPosts) ==
    [mediaPosts |-> mediaPosts, nonMediaPosts |-> nonMediaPosts]

\* line 138: what the error handler returns (the lists built so far are
\* locals of the try block and are not in scope here)
CatchResult(mediaPosts, nonMediaPosts) == EmptyResult

\* lines 136-139: the error handler of fetchPosts
Catch(rho, message) ==
    Step([LeaveLoop(rho) EXCEPT
                     !.pc = "returned", !.exit = "catch", !.error = message,
                     !.result = CatchResult(rho.mediaPosts, rho.nonMediaPosts)],
         <<updateStatus(<<"Error fetching posts: ", message>>, TRUE)>>)

\* lines 48-54: evaluate the while condition; issue the next page request
\* or leave the loop
LoopHead(rho) ==
    IF LoopCondition(rho)
    THEN Step([rho EXCEPT !.pc = "page", !.fetchCalls = @ + 1], <<>>)
    ELSE Return(rho)

\* lines 160, 169, 31-33, 9-18: displayMedia calls fetchPosts with a limit
\* clamped to 1..100; fetchPosts calls getAccessToken, which sends the
\* token request.
\* lines 143-158: what the form holds when displayMedia is called
FormStates == {"ok", "nocredentials", "nosource"}

\* lines 150-158: the status of a form that is not filled in
FormStatus(form) ==
    IF form = "nocredentials"
    THEN updateStatus(<<"Please enter Client ID and Secret">>, TRUE)
    ELSE updateStatus(<<"Please enter a subreddit or multireddit">>, TRUE)

\* lines 143-158, and line 283 on a page whose inputs are empty: displayMedia
\* called with a form that is not filled in reports it and returns without
\* calling fetchPosts
FormRejected(r) ==
    /\ run[r].pc = "idle"
    /\ \E form \in FormStates \ {"ok"} :
         /\ run' = [run EXCEPT ![r].pc = "done"]
         /\ Emit(<<FormStatus(form)>>)
         /\ UNCHANGED dom

Start(rho, limit) ==
    Step([rho EXCEPT !.pc = "token", !.limit = limit, !.tokenCalls = @ + 1],
         <<updateStatus(<<"Fetching posts...">>, FALSE),
           updateStatus(<<"Fetching access token...">>, FALSE)>>)

FetchPostsCall(r) ==
    /\ run[r].pc = "idle"
    /\ \E limit \in 1..MaxLimit : Apply(r, Start(run[r], limit))

\* lines 19-26: what getAccessToken returns for a response
AccessToken(resp) ==
    IF resp = "ok" THEN "token" ELSE Null

\* lines 20-25: the status getAccessToken ends with
TokenStatus(resp) ==
    CASE resp = "error" ->
           updateStatus(<<"Error getting access token: ", "data.error">>, TRUE)
      [] resp = "fail" ->
           updateStatus(<<"Error getting access token: ", "Failed to fetch">>, TRUE)
      [] OTHER -> updateStatus(<<"Access token retrieved">>, FALSE)

\* NoToken with the test of the token left out
NoTokenNeverChecked(token) == FALSE

\* line 34: if (!token)
NoToken(token) == token = Null

\* lines 19-27, 33-48: the token response arrives; without a token the run
\* returns two empty lists, otherwise the locals are set up and the loop
\* is entered.
TokenResponse(r) ==
    /\ run[r].pc = "token"
    /\ \E resp \in TokenResponses :
         LET token == AccessToken(resp)
             rho   == [run[r] EXCEPT !.token = token]
         IN  IF NoToken(token)
             THEN Apply(r, Step([rho EXCEPT !.pc = "returned",
                                            !.exit = "notoken",
                                            !.result = EmptyResult],
                                <<TokenStatus(resp)>>))
             ELSE LET rho1 == [rho EXCEPT !.mediaPosts = <<>>,
                                          !.nonMediaPosts = <<>>,
                                          !.after = "",
                                          !.requestCount = 0,
                                          !.maxRequests = MaxRequests(rho.limit)]
                      out  == LoopHead(rho1)
                  IN  Apply(r, Step(out.run, <<TokenStatus(resp)>> \o out.msgs))

\* line 58: data.data.children.map(child => child.data); every item of the
\* run is a distinct object, identified here by its arrival number
Posts(children, arrivedBefore) ==
    [i \in DOMAIN children |->
        [id |-> arrivedBefore + i, url |-> children[i].url,
         source |-> children[i].source, gif |-> children[i].gif,
         title |-> children[i].title]]

\* NoPosts never leaving the loop
NoPostsNeverBreaks(length) == FALSE

\* line 59: if (posts.length === 0)
NoPosts(length) == length = 0

\* lines 55-60: a page response arrives
PageResponse(r) ==
    /\ run[r].pc = "page"
    /\ \E resp \in PageResponses :
         LET rho == run[r] IN
         CASE resp.kind = "fail"  -> Apply(r, Catch(rho, "Failed to fetch"))
           [] resp.kind = "error" -> Apply(r, Catch(rho, "data.error"))
           [] OTHER ->
                IF NoPosts(resp.length)
                THEN Apply(r, Return([rho EXCEPT !.emptyPage = (resp.length = 0)]))
                ELSE Apply(r, Step([rho EXCEPT !.emptyPage = (resp.length = 0),
                                               !.pc = "classify",
                                               !.posts = <<>>,
                                               !.postsLength = resp.length,
                                               !.idx = 1], <<>>))

\* lines 73 / 90: is there room in mediaPosts
HasRoom(mediaPosts, limit) == Len(mediaPosts) < limit

\* lines 63-99: classify one post and push it to one of the two lists
\* (post.url is a string here)
Classify(rho, post) ==
    IF HasImageExt(UrlLower(post.url))
    THEN IF HasRoom(rho.mediaPosts, rho.limit)
         THEN [rho EXCEPT !.mediaPosts = Append(@, post)]
         ELSE [rho EXCEPT !.nonMediaPosts = Append(@, post)]
    ELSE LET previewUrl == PreviewUrl(post) IN
         IF HasImageExt(UrlLower(previewUrl))
         THEN IF HasRoom(rho.mediaPosts, rho.limit)
              THEN [rho EXCEPT !.mediaPosts =
                                   Append(@, [post EXCEPT !.url = previewUrl])]
              ELSE [rho EXCEPT !.nonMediaPosts = Append(@, post)]
         ELSE [rho EXCEPT !.nonMediaPosts = Append(@, post)]

\* RestOfBatch slicing one position too far
RestOfBatchSkipsOne(posts, i) == SubSeq(posts, i + 2, Len(posts))

\* line 103: posts.slice(posts.indexOf(post) + 1), post being posts[i]
RestOfBatch(posts, i) == SubSeq(posts, i + 1, Len(posts))

\* AppendRest pushing the rest of the page to mediaPosts
AppendRestToMedia(rho, rest) == [rho EXCEPT !.mediaPosts = @ \o rest]

\* AppendRest resolving the preview address of the posts it appends
AppendRestResolved(rho, rest) ==
    [rho EXCEPT !.nonMediaPosts = @ \o
        [i \in DOMAIN rest |->
            IF rest[i].url # Undefined /\ HasImageExt(UrlLower(PreviewUrl(rest[i])))
            THEN [rest[i] EXCEPT !.url = PreviewUrl(rest[i])]
            ELSE rest[i]]]

\* line 103: nonMediaPosts.push(...rest)
AppendRest(rho, rest) == [rho EXCEPT !.nonMediaPosts = @ \o rest]

\* lines 106-111: the for loop is left (posts and the loop position are not
\* read again); with enough media posts the while loop is left too and the
\* run returns
EndFor(rho) ==
    IF Len(rho.mediaPosts) >= rho.limit
    THEN Return(rho)
    ELSE Step([rho EXCEPT !.pc = "afterBatch", !.posts = <<>>,
                          !.postsLength = 0, !.idx = 0], <<>>)

\* EnoughMedia never stopping the for loop
EnoughMediaNever(mediaPosts, limit) == FALSE

\* line 102: if (mediaPosts.length >= limit)
EnoughMedia(mediaPosts, limit) == Len(mediaPosts) >= limit

\* lines 62-111: one iteration of the for loop over the posts of a page,
\* on posts[idx], the children being drawn from `kinds`.  Reading
\* post.url.toLowerCase() of a post without url throws a TypeError, which
\* the handler of fetchPosts catches.  When mediaPosts is full the rest of
\* the page is appended to nonMediaPosts.
ClassifyPostOf(r, kinds) ==
    /\ run[r].pc = "classify"
    /\ \E child \in kinds :
         LET rho0 == run[r]
             post == Posts(<<child>>, Len(rho0.arrived))[1]
             rho  == [rho0 EXCEPT !.posts = Append(@, post),
                                  !.arrived = Append(@, post)]
         IN  IF post.url = Undefined
             THEN Apply(r, Catch(rho, "TypeError"))
             ELSE LET rho1 == Classify(rho, post) IN
                  IF EnoughMedia(rho1.mediaPosts, rho1.limit)
                  THEN \E others \in [1..(rho.postsLength - rho.idx) -> kinds] :
                         LET rest  == Posts(others, Len(rho.arrived))
                             posts == rho.posts \o rest
                         IN  Apply(r, EndFor(AppendRest(
                                      [rho1 EXCEPT !.arrived = @ \o rest],
                                      RestOfBatch(posts, rho.idx))))
                  ELSE IF rho.idx = rho.postsLength
                  THEN Apply(r, EndFor(rho1))
                  ELSE Apply(r, Step([rho1 EXCEPT !.idx = @ + 1], <<>>))

\* ClassifyPostOf on the items of the listing model
ClassifyPost(r) == ClassifyPostOf(r, ItemKinds)

\* lines 31-60: the state in which the for loop starts on the first page of
\* a run: the token was retrieved, the loop entered, the first page request
\* answered with `length` children
FirstPage(limit, length) ==
    [IdleRun EXCEPT !.pc = "classify", !.limit = limit, !.token = "token",
                    !.maxRequests = MaxRequests(limit),
                    !.postsLength = length, !.idx = 1,
                    !.tokenCalls = 1, !.fetchCalls = 1]

InitPage ==
    /\ \E limit \in 1..MaxLimit, length \in 1..MaxPage :
          run = [r \in Runs |-> FirstPage(limit, length)]
    /\ statusBar = TokenStatus("ok")
    /\ statusLog = {updateStatus(<<"Fetching posts...">>, FALSE),
                    updateStatus(<<"Fetching access token...">>, FALSE),
                    TokenStatus("ok")}
    /\ feedContainer = <<>>
    /\ nonMediaList = <<>>
    /\ detached = {}
    /\ imageErrors = 0

\* The for loop over one page, its children drawn from ClassifyItems
ClassifyPage(r) == ClassifyPostOf(r, ClassifyItems)

NextClassify == \E r \in Runs : ClassifyPage(r)

ClassifySpec == InitPage /\ [][NextClassify]_vars

\* StallCheck testing the counter one request early
StallCheckOneEarly(limit, requestCount, mediaPosts) ==
    limit = 1 /\ requestCount = 1 /\ Len(mediaPosts) = 0

\* StallCheck without the test of the counter
StallCheckEveryRequest(limit, requestCount, mediaPosts) ==
    limit = 1 /\ Len(mediaPosts) = 0

\* StallCheck without the test of the limit
StallCheckAnyLimit(limit, requestCount, mediaPosts) ==
    requestCount = 2 /\ Len(mediaPosts) = 0

\* line 114: the stall condition
StallCheck(limit, requestCount, mediaPosts) ==
    limit = 1 /\ requestCount = 2 /\ Len(mediaPosts) = 0

\* line 127: if (!after)
NoCursor(after) == after = Null \/ after = ""

\* Advance taking the delay only when the while condition still holds
AdvanceDelayOnlyIfLooping(rho, dataAfter) ==
    LET rho1 == [rho EXCEPT !.after = dataAfter, !.requestCount = @ + 1] IN
    IF NoCursor(rho1.after) \/ ~LoopCondition(rho1)
    THEN Return(rho1)
    ELSE Step([rho1 EXCEPT !.pc = "sleep", !.delays = @ + 1],
              <<updateStatus(<<"Fetched ", Len(rho1.mediaPosts), "/",
                               rho1.limit, " image posts...">>, FALSE)>>)

\* Advance without requestCount++
AdvanceWithoutCount(rho, dataAfter) ==
    LET rho1 == [rho EXCEPT !.after = dataAfter] IN
    IF NoCursor(rho1.after)
    THEN Return(rho1)
    ELSE Step([rho1 EXCEPT !.pc = "sleep", !.delays = @ + 1],
              <<updateStatus(<<"Fetched ", Len(rho1.mediaPosts), "/",
                               rho1.limit, " image posts...">>, FALSE)>>)

\* lines 124-131: advance the cursor, count the request, and either leave
\* the loop (no next page) or report progress and start the 1000 ms delay
Advance(rho, dataAfter) ==
    LET rho1 == [rho EXCEPT !.after = dataAfter, !.requestCount = @ + 1] IN
    IF NoCursor(rho1.after)
    THEN Return(rho1)
    ELSE Step([rho1 EXCEPT !.pc = "sleep", !.delays = @ + 1],
              <<updateStatus(<<"Fetched ", Len(rho1.mediaPosts), "/",
                               rho1.limit, " image posts...">>, FALSE)>>)

\* lines 115-121: window.confirm and the operator's answer
Confirm(rho, continueFetching, dataAfter) ==
    LET rho1 == [rho EXCEPT !.prompts = @ + 1,
                            !.approvals = IF continueFetching THEN @ + 1 ELSE @]
    IN  IF ~continueFetching
        THEN LET out == Return(rho1)
             IN  Step(out.run,
                      <<updateStatus(<<"Stopped fetching: No image posts found">>,
                                     TRUE)>> \o out.msgs)
        ELSE Advance(rho1, dataAfter)

\* lines 113-131: the rest of a while iteration, mediaPosts not being full
AfterBatch(r) ==
    /\ run[r].pc = "afterBatch"
    /\ \E dataAfter \in Cursors :
         LET rho == run[r] IN
         IF StallCheck(rho.limit, rho.requestCount, rho.mediaPosts)
         THEN \E continueFetching \in BOOLEAN :
                 Apply(r, Confirm(rho, continueFetching, dataAfter))
         ELSE Apply(r, Advance(rho, dataAfter))

\* lines 131, 48: the delay elapses and the while condition is evaluated
DelayElapsed(r) ==
    /\ run[r].pc = "sleep"
    /\ Apply(r, LoopHead(run[r]))

Next ==
    \E r \in Runs :
        \/ FormRejected(r)
        \/ FetchPostsCall(r)
        \/ TokenResponse(r)
        \/ PageResponse(r)
        \/ ClassifyPost(r)
        \/ AfterBatch(r)
        \/ DelayElapsed(r)

Spec == Init /\ [][Next]_vars

\* ------------------------------------------------ displayMedia, two calls
\* displayMedia is bound to the change events of the inputs and to the
\* clicks of the buttons (lines 230-274), so it can be called again while an
\* earlier call awaits fetchPosts.
ConcRuns == {1, 2}

\* The positions at which a call awaits (token, page, timer): the
\* others lie inside code that runs to completion, and the continuation of
\* `await fetchPosts(...)` runs before any other event is handled.
AwaitPcs == {"token", "page", "sleep"}
EventPcs == AwaitPcs \cup {"idle", "done"}

\* lines 174-202, 205-209: the element appended for a post (its owner is
\* the call that appended it); for an image, url is its src
Rendered(r, posts) ==
    [i \in DOMAIN posts |-> [owner |-> r, id |-> posts[i].id,
                             url |-> posts[i].url]]

\* The images of a sequence of rendered elements
Images(elements) == {elements[i] : i \in DOMAIN elements}

\* lines 143-169: displayMedia up to its await: validate the form, clamp
\* the limit, empty the two elements (the images removed from the feed
\* still exist, and so do their handlers), call fetchPosts
DisplayMediaCall(r) ==
    /\ run[r].pc = "idle"
    /\ \/ FormRejected(r)
       \/ \E limit \in 1..MaxLimit :
             LET out == Start(run[r], limit) IN
             /\ run' = [run EXCEPT ![r] =
                           [out.run EXCEPT !.overlapped =
                                \E q \in DOMAIN run \ {r} :
                                    run[q].pc \in AwaitPcs]]
             /\ Emit(out.msgs)
             /\ feedContainer' = <<>>
             /\ nonMediaList' = <<>>
             /\ detached' = detached \cup Images(feedContainer)
             /\ UNCHANGED imageErrors

\* lines 212-214
FewStatus(rho) ==
    IF Len(rho.result.mediaPosts) < rho.limit
    THEN <<updateStatus(<<"Only ", Len(rho.result.mediaPosts),
                          " image posts found">>, TRUE)>>
    ELSE <<>>

\* line 198: post.title.substring throws for a post without title
NoTitle(post) == post.title = Undefined

\* lines 169-214: displayMedia after its await: append one element per
\* returned post to the two elements, warn when there are fewer media posts
\* than the limit.  At the first media post without title line 198 throws:
\* the posts before it are in the feed, its own image exists (lines 178-192)
\* but is not appended, nothing of lines 205-214 runs, and displayMedia
\* rejects.
Render(r) ==
    /\ run[r].pc = "returned"
    /\ LET media == run[r].result.mediaPosts
           bad   == {i \in DOMAIN media : NoTitle(media[i])}
       IN  IF bad = {}
           THEN /\ run' = [run EXCEPT ![r].pc = "done",
                                      ![r].rendered = "all"]
                /\ feedContainer' = feedContainer \o Rendered(r, media)
                /\ nonMediaList' =
                       nonMediaList \o Rendered(r, run[r].result.nonMediaPosts)
                /\ Emit(FewStatus(run[r]))
                /\ UNCHANGED <<detached, imageErrors>>
           ELSE LET k == CHOOSE i \in bad : \A j \in bad : i <= j IN
                /\ run' = [run EXCEPT ![r].pc = "done",
                                      ![r].rendered = "rejected"]
                /\ feedContainer' =
                       feedContainer \o Rendered(r, SubSeq(media, 1, k - 1))
                /\ detached' =
                       detached \cup Images(Rendered(r, <<media[k]>>))
                /\ Emit(<<>>)
                /\ UNCHANGED <<nonMediaList, imageErrors>>

\* The error events the model follows
MaxImageErrors == 2

\* lines 187-190: the list item the handler appends; post is the media
\* post the image was created for
ErrorItem(image) ==
    LET media == run[image.owner].result.mediaPosts
        post  == media[CHOOSE i \in DOMAIN media : media[i].id = image.id]
    IN  [owner |-> image.owner, id |-> image.id, url |-> post.url]

\* lines 183-191: img.onerror.  An image displayMedia created fails to
\* load: its src is emptied and a list item for its post is appended to
\* #non-media-items, whether or not the image is still in the document.
\* Whether the emptied src raises a further error event depends on the
\* browser, so an image may fire again.
ImageError ==
    /\ imageErrors < MaxImageErrors
    /\ \A q \in DOMAIN run : run[q].pc \in EventPcs
    /\ imageErrors' = imageErrors + 1
    /\ \/ \E i \in DOMAIN feedContainer :
             /\ feedContainer' = [feedContainer EXCEPT ![i].url = <<>>]
             /\ nonMediaList' =
                    Append(nonMediaList, ErrorItem(feedContainer[i]))
             /\ UNCHANGED detached
       \/ \E image \in detached :
             /\ detached' = (detached \ {image})
                              \cup {[image EXCEPT !.url = <<>>]}
             /\ nonMediaList' = Append(nonMediaList, ErrorItem(image))
             /\ UNCHANGED feedContainer
    /\ UNCHANGED <<run, statusBar, statusLog>>

ConcInit ==
    /\ run = [r \in ConcRuns |-> IdleRun]
    /\ statusBar = updateStatus(<<>>, FALSE)
    /\ statusLog = {}
    /\ feedContainer = <<>>
    /\ nonMediaList = <<>>
    /\ detached = {}
    /\ imageErrors = 0

\* The listing served to the two calls: pages of at most one post, at most
\* two pages, posts with an image address (with or without title) or with
\* none.
ConcItems == {ItemDirect, ItemPlain, ItemNoTitle}

ConcListing(rho) ==
    /\ rho.postsLength <= 1
    /\ rho.requestCount >= 2 => NoCursor(rho.after)

\* One event is handled at a time, and only while no other call is inside
\* code that runs to completion.
Turn(r) == \A q \in ConcRuns \ {r} : run[q].pc \in EventPcs

\* A step of call r in the two-call setting
Handled(r, A) == Turn(r) /\ A /\ ConcListing(run'[r])

ConcCall(r)       == Handled(r, DisplayMediaCall(r))
ConcToken(r)      == Handled(r, TokenResponse(r))
ConcPage(r)       == Handled(r, PageResponse(r))
ConcClassify(r)   == Handled(r, ClassifyPostOf(r, ConcItems))
ConcAfterBatch(r) == Handled(r, AfterBatch(r))
ConcDelay(r)      == Handled(r, DelayElapsed(r))
ConcRender(r)     == Handled(r, Render(r))

ConcNext ==
    \/ \E r \in ConcRuns :
          \/ ConcCall(r)
          \/ ConcToken(r)
          \/ ConcPage(r)
          \/ ConcClassify(r)
          \/ ConcAfterBatch(r)
          \/ ConcDelay(r)
          \/ ConcRender(r)
    \/ ImageError

ConcSpec == ConcInit /\ [][ConcNext]_vars

\* ------------------------------------------------------------ properties
PageFailed(rho) ==
    /\ rho.pc = "returned" /\ rho.exit = "catch"
    /\ rho.error \in {"data.error", "Failed to fetch"}

StallStatus == updateStatus(<<"Stopped fetching: No image posts found">>, TRUE)

\* The items of seq that are not (by identity) in mediaPosts, in seq's order.
NotInMedia(seq, mediaPosts) ==
    SelectSeq(seq, LAMBDA p : \A i \in DOMAIN mediaPosts : mediaPosts[i].id # p.id)

IsMediaItem(post) ==
    /\ post.url # Undefined
    /\ \/ HasImageExt(UrlLower(post.url))
       \/ HasImageExt(UrlLower(PreviewUrl(post)))

\* A post as the listing sent it, without its arrival number
Kind(post) ==
    [url |-> post.url, source |-> post.source, gif |-> post.gif,
     title |-> post.title]

\* The items of the model with an image address, primary or preview
MediaKinds == {k \in ClassifyItems : IsMediaItem(k)}

\* The item was classified on its own (not appended with the rest of a page)
ClassifiedAlone(rho, p) ==
    \/ Len(rho.mediaPosts) < rho.limit
    \/ p.id <= rho.mediaPosts[rho.limit].id


\* C1 as stated: when a page request fails after earlier pages were
\* classified, the run returns the media and non-media items accumulated up
\* to that point.
C1_FailedPageReturnsAccumulated ==
    \A r \in Runs :
        (PageFailed(run[r]) /\ run[r].requestCount >= 1)
        => run[r].result = [mediaPosts |-> run[r].mediaPosts,
                            nonMediaPosts |-> run[r].nonMediaPosts]

\* C1 (amended): when a page request fails after earlier pages were
\* classified, the run ends, returns two empty lists (the items accumulated
\* so far are dropped), and the failed page is not requested again: the
\* failed request is the one request beyond the pages counted.
C1_FailedPageReturnsEmpty ==
    \A r \in Runs :
        (PageFailed(run[r]) /\ run[r].requestCount >= 1)
        => /\ run[r].result = EmptyResult
           /\ run[r].fetchCalls = run[r].requestCount + 1

C1_Witness ==
    \E r \in Runs :
        /\ PageFailed(run[r]) /\ run[r].requestCount >= 1
        /\ Len(run[r].mediaPosts) >= 1 /\ Len(run[r].nonMediaPosts) >= 1
        /\ run[r].result = EmptyResult

\* C2 as stated: for limit 1, when the stall prompt is answered 'continue'
\* and the third page carried a next cursor, the run issues at least one
\* page request beyond the budget of 3.
C2_ContinueGoesPastBudget ==
    \A r \in Runs :
        (/\ run[r].pc = "returned" /\ run[r].limit = 1
         /\ run[r].approvals >= 1 /\ ~NoCursor(run[r].after))
        => run[r].fetchCalls >= 4

\* C3: the requests-issued counter never decreases, and the number of page
\* requests issued is at most B = MaxRequests(limit), or at most B plus the
\* number of approved continuations when the stall prompt was answered
\* 'continue' for limit 1.
C3_BudgetRespected ==
    /\ [](\A r \in Runs :
            /\ run[r].requestCount <= MaxRequests(run[r].limit)
            /\ run[r].fetchCalls <=
                 IF run[r].limit = 1 /\ run[r].approvals > 0
                 THEN MaxRequests(run[r].limit) + run[r].approvals
                 ELSE MaxRequests(run[r].limit))
    /\ [][\A r \in Runs : run[r].requestCount' >= run[r].requestCount]_vars

C3_Witness ==
    \E r \in Runs :
        /\ run[r].pc = "returned" /\ run[r].exit = "normal"
        /\ run[r].limit >= 2
        /\ run[r].requestCount = MaxRequests(run[r].limit)
        /\ run[r].fetchCalls = MaxRequests(run[r].limit)

\* C4: in every reachable state of a run the length of mediaPosts is at
\* most the limit (and so is the returned mediaPosts).
C4_MediaAtMostLimit ==
    \A r \in Runs :
        /\ Len(run[r].mediaPosts) <= run[r].limit
        /\ Len(run[r].result.mediaPosts) <= run[r].limit

C4_Witness ==
    \E r \in Runs :
        /\ run[r].pc = "returned" /\ run[r].limit >= 2
        /\ Len(run[r].result.mediaPosts) = run[r].limit
        /\ \E i \in DOMAIN run[r].result.nonMediaPosts :
              IsMediaItem(run[r].result.nonMediaPosts[i])

\* C5 as stated: at the end of any run, nonMediaPosts contains every item of
\* every page fetched that is not in mediaPosts, in arrival order.
C5_NonMediaIsTheRest ==
    \A r \in Runs :
        run[r].pc = "returned"
        => run[r].result.nonMediaPosts =
               NotInMedia(run[r].arrived, run[r].result.mediaPosts)

\* C5 (amended): at the end of a run that does not end in the error handler,
\* nonMediaPosts contains every item of every page fetched that is not in
\* mediaPosts, unchanged and in arrival order; a run that ends in the error
\* handler returns two empty lists.
C5_NonMediaIsTheRestUnlessError ==
    \A r \in Runs :
        run[r].pc = "returned"
        => IF run[r].exit = "catch"
           THEN run[r].result = EmptyResult
           ELSE run[r].result.nonMediaPosts =
                    NotInMedia(run[r].arrived, run[r].result.mediaPosts)

C5_Witness ==
    \E r \in Runs :
        LET res == run[r].result IN
        /\ run[r].pc = "returned" /\ run[r].exit = "normal"
        /\ Len(res.mediaPosts) >= 1
        /\ \E i \in DOMAIN res.nonMediaPosts :
              res.nonMediaPosts[i].id < res.mediaPosts[1].id
        /\ \E i \in DOMAIN res.nonMediaPosts :
              res.nonMediaPosts[i].id > res.mediaPosts[Len(res.mediaPosts)].id

\* C6 as stated: classifying an item whose url field is missing never
\* raises; the run goes on with the remaining items.
C6_MissingUrlNeverRaises ==
    \A r \in Runs : ~(run[r].exit = "catch" /\ run[r].error = "TypeError")

\* C7: limit 1, the first three pages are non-empty and hold only non-media
\* items, and the operator declines the stall prompt: the run returns an
\* empty mediaPosts, exactly 3 page requests have been issued, and the stall
\* status has been reported.
C7_StallDeclined ==
    \A r \in Runs :
        (/\ run[r].pc = "returned" /\ run[r].limit = 1
         /\ run[r].prompts >= 1 /\ run[r].approvals = 0)
        => /\ run[r].exit = "normal"
           /\ run[r].result.mediaPosts = <<>>
           /\ run[r].fetchCalls = 3
           /\ StallStatus \in statusLog

C7_Witness ==
    \E r \in Runs :
        /\ run[r].pc = "returned" /\ run[r].limit = 1
        /\ run[r].prompts = 1 /\ run[r].approvals = 0
        /\ Len(run[r].arrived) >= 3
        /\ \A i \in DOMAIN run[r].arrived : ~IsMediaItem(run[r].arrived[i])
        /\ run[r].result.nonMediaPosts = run[r].arrived

\* C8 as stated: the delay at the end of an iteration is taken only when the
\* while condition still holds after the cursor advance and the increment.
C8_DelayOnlyIfLooping ==
    \A r \in Runs : run[r].pc = "sleep" => LoopCondition(run[r])

\* C8 (amended): the delay is taken at the end of every iteration that
\* advances to a non-empty next cursor, whether or not the request budget
\* is used up: while a run sleeps its cursor is non-empty and mediaPosts is
\* short of the limit, and the number of delays taken equals the number of
\* requests counted, less the last one when its page carried no cursor.
C8_DelayAfterEveryPageWithCursor ==
    \A r \in Runs :
        /\ run[r].pc = "sleep"
           => ~NoCursor(run[r].after) /\ Len(run[r].mediaPosts) < run[r].limit
        /\ run[r].delays =
             IF NoCursor(run[r].after) /\ run[r].requestCount > 0
             THEN run[r].requestCount - 1
             ELSE run[r].requestCount

C8_Witness ==
    \E r \in Runs :
        /\ run[r].pc = "sleep"
        /\ run[r].requestCount = run[r].maxRequests
        /\ ~LoopCondition(run[r])

\* C9: the stall prompt (window.confirm) is invoked at most once in a run.
C9_PromptAtMostOnce ==
    \A r \in Runs : run[r].prompts <= 1

C9_Witness ==
    \E r \in Runs :
        /\ run[r].pc = "returned"
        /\ run[r].prompts = 1 /\ run[r].approvals = 1

\* C10: if getAccessToken yields no token, fetchPosts returns two empty
\* lists and issues no page request.
C10_NoTokenNoRequest ==
    \A r \in Runs :
        (/\ run[r].tokenCalls >= 1
         /\ run[r].pc # "token" /\ run[r].token = Null)
        => /\ run[r].pc = "returned" /\ run[r].exit = "notoken"
           /\ run[r].result = EmptyResult
           /\ run[r].fetchCalls = 0

C10_Witness ==
    \E r \in Runs :
        /\ run[r].pc = "returned" /\ run[r].exit = "notoken"
        /\ run[r].tokenCalls = 1 /\ run[r].fetchCalls = 0
        /\ statusBar.isError

\* How far a run is from its return: the requests the budget still allows,
\* then the position inside the current while iteration.
IterationSpan == MaxBatch + 4

Rank(rho) ==
    CASE rho.pc \in {"returned", "done"} -> 0
      [] rho.pc = "idle" ->
           (MaxRequests(MaxLimit) + 1) * IterationSpan + 2
      [] rho.pc = "token" ->
           (MaxRequests(rho.limit) + 1) * IterationSpan + 1
      [] rho.pc = "sleep" ->
           (rho.maxRequests - rho.requestCount) * IterationSpan + MaxBatch + 3
      [] rho.pc = "page" ->
           (rho.maxRequests - rho.requestCount) * IterationSpan + MaxBatch + 2
      [] rho.pc = "classify" ->
           (rho.maxRequests - rho.requestCount) * IterationSpan
             + 2 + (rho.postsLength - rho.idx)
      [] OTHER ->
           (rho.maxRequests - rho.requestCount) * IterationSpan + 1

\* C11: every run of fetchPosts terminates, whatever the listing API returns
\* and whatever the operator answers: until the run has returned a step is
\* possible, and every step of a run strictly lowers its rank, a natural
\* number that is 0 exactly when the run has returned (or displayMedia
\* ended without calling fetchPosts).
C11_RunTerminates ==
    /\ [](\A r \in Runs :
            /\ Rank(run[r]) >= 0
            /\ (Rank(run[r]) = 0) <=> (run[r].pc \in {"returned", "done"})
            /\ run[r].pc \notin {"returned", "done"} => ENABLED <<Next>>_vars)
    /\ [][\A r \in Runs :
            run'[r] # run[r] => Rank(run'[r]) < Rank(run[r])]_vars

C11_Witness ==
    \E r \in Runs :
        /\ run[r].pc = "returned" /\ run[r].exit = "normal"
        /\ run[r].limit = 1 /\ run[r].approvals = 1
        /\ ~NoCursor(run[r].after)
        /\ Len(run[r].arrived) >= 3
        /\ \A i \in DOMAIN run[r].arrived : ~IsMediaItem(run[r].arrived[i])

\* C13: when mediaPosts reaches the limit while a page is classified, the
\* remaining items of the page are appended to nonMediaPosts in their
\* original order, each exactly once and unchanged (url included), also when
\* such an item would have been media: the returned nonMediaPosts ends with
\* exactly the items that arrived after the last media post, and holds
\* none of them before that.
C13_RestOfPageAppendedVerbatim ==
    \A r \in Runs :
        (/\ run[r].pc = "returned" /\ run[r].exit = "normal"
         /\ run[r].limit >= 1
         /\ Len(run[r].result.mediaPosts) = run[r].limit)
        => LET res  == run[r].result
               last == res.mediaPosts[run[r].limit].id
               rest == SubSeq(run[r].arrived, last + 1, Len(run[r].arrived))
               n    == Len(res.nonMediaPosts) - Len(rest)
           IN  /\ n >= 0
               /\ SubSeq(res.nonMediaPosts, n + 1, Len(res.nonMediaPosts)) = rest
               /\ \A i \in 1..n : res.nonMediaPosts[i].id < last

C13_Witness ==
    \E r \in Runs :
        LET res == run[r].result IN
        /\ run[r].pc = "returned" /\ run[r].exit = "normal"
        /\ Len(res.mediaPosts) = run[r].limit /\ run[r].limit >= 1
        /\ Len(res.nonMediaPosts) >= 2
        /\ LET n    == Len(res.nonMediaPosts)
               p    == res.nonMediaPosts[n - 1]
               q    == res.nonMediaPosts[n]
               last == res.mediaPosts[run[r].limit].id
           IN  /\ p.id = last + 1 /\ q.id = last + 2
               /\ p.url = UrlHtml /\ p.source = UrlPngQuery
               /\ q.url = UrlJpgQuery

\* C14: the stall prompt is invoked only when the limit is 1, exactly 3 page
\* requests have been issued in the run and mediaPosts is still empty; never
\* for a limit of 2 or more, nor before the third request.
C14_PromptOnlyAtThirdRequest ==
    /\ [](\A r \in Runs :
            run[r].prompts >= 1 => run[r].limit = 1 /\ run[r].fetchCalls >= 3)
    /\ [][\A r \in Runs :
            run'[r].prompts > run[r].prompts
            => /\ run[r].limit = 1
               /\ run[r].fetchCalls = 3
               /\ run[r].mediaPosts = <<>>]_vars

C14_Witness ==
    \E r \in Runs :
        /\ run[r].pc = "sleep" /\ run[r].prompts = 1
        /\ run[r].limit = 1 /\ run[r].fetchCalls = 3
        /\ run[r].mediaPosts = <<>>

\* The four ways the loop of fetchPosts ends without an error.
Satisfied(rho) == Len(rho.result.mediaPosts) = rho.limit
BudgetExhausted(rho) == rho.requestCount = rho.maxRequests
EndOfStream(rho) ==
    rho.emptyPage \/ (rho.requestCount >= 1 /\ NoCursor(rho.after))
StalledAborted(rho) == rho.prompts > rho.approvals

\* C15: whenever fetchPosts returns without an error having occurred, the
\* run is Satisfied, or BudgetExhausted, or at EndOfStream (the last page
\* was empty or carried no next cursor), or StalledAborted.
C15_ReturnHasAReason ==
    \A r \in Runs :
        (run[r].pc = "returned" /\ run[r].exit = "normal")
        => \/ Satisfied(run[r])
           \/ BudgetExhausted(run[r])
           \/ EndOfStream(run[r])
           \/ StalledAborted(run[r])

C15_Witness ==
    \E r \in Runs :
        /\ run[r].pc = "returned" /\ run[r].exit = "normal"
        /\ BudgetExhausted(run[r])
        /\ ~Satisfied(run[r]) /\ ~EndOfStream(run[r]) /\ ~StalledAborted(run[r])
        /\ run[r].limit >= 2 /\ Len(run[r].result.mediaPosts) >= 1

\* C16: once a page fetch returns zero items, the run issues no further
\* page request, does not invoke the stall prompt, and returns the lists
\* accumulated so far.
C16_EmptyPageEndsRun ==
    /\ [](\A r \in Runs :
            run[r].emptyPage
            => /\ run[r].pc = "returned" /\ run[r].exit = "normal"
               /\ run[r].result = [mediaPosts |-> run[r].mediaPosts,
                                   nonMediaPosts |-> run[r].nonMediaPosts]
               /\ run[r].result.nonMediaPosts =
                      NotInMedia(run[r].arrived, run[r].result.mediaPosts)
               /\ run[r].fetchCalls = run[r].requestCount + 1
               /\ run[r].prompts = 0)
    /\ [][\A r \in Runs :
            run[r].emptyPage
            => /\ run'[r].fetchCalls = run[r].fetchCalls
               /\ run'[r].prompts = run[r].prompts]_vars

C16_Witness ==
    \E r \in Runs :
        /\ run[r].emptyPage /\ run[r].pc = "returned"
        /\ run[r].limit = 1 /\ run[r].fetchCalls = 3 /\ run[r].prompts = 0
        /\ Len(run[r].result.nonMediaPosts) >= 2

\* C18: whenever an item is about to be classified mediaPosts is short of
\* the limit, so the two branches that push a media item to nonMediaPosts
\* because mediaPosts is full are never taken; a media item is in
\* nonMediaPosts only as part of the rest of the page that filled
\* mediaPosts.
C18_RoomWhenClassifying ==
    \A r \in Runs :
        /\ run[r].pc = "classify"
           => HasRoom(run[r].mediaPosts, run[r].limit)
        /\ \A i \in DOMAIN run[r].nonMediaPosts :
              ClassifiedAlone(run[r], run[r].nonMediaPosts[i])
              => Kind(run[r].nonMediaPosts[i]) \notin MediaKinds

C18_Witness ==
    \E r \in Runs :
        /\ run[r].pc = "classify" /\ run[r].idx >= 2
        /\ Len(run[r].mediaPosts) >= 1
        /\ Len(run[r].mediaPosts) = run[r].limit - 1

\* C19 as stated: when the operator declines the stall prompt, the stall
\* status is the last status the run emits; no later success status
\* replaces it.
C19_StallStatusIsLast ==
    \A r \in Runs :
        (run[r].pc = "returned" /\ StalledAborted(run[r]))
        => statusBar = StallStatus

\* The addresses of the items that end, lowercased and without the query,
\* with .gif, .jpg, .jpeg or .png
ImageUrls ==
    {UrlJpgQuery, UrlPngQuery, UrlGif, UrlJpeg, UrlAccentJpg, UrlSigmaPng}

\* The fallback address of an item: the preview source address, the
\* animated variant's only when the source address is absent or empty
Fallback(p) ==
    IF p.source \notin {Undefined, <<>>} THEN p.source
    ELSE IF p.gif \notin {Undefined, <<>>} THEN p.gif
    ELSE <<>>

\* C17: an item with an image primary address is Media with url unchanged;
\* otherwise, with an image fallback address (preview source, or the
\* animated variant when the source is absent or empty), it is Media with url
\* overwritten by the fallback address as given; otherwise it is NonMedia
\* with url unchanged.
C17_ClassificationResult ==
    \A r \in Runs :
        \A i \in DOMAIN run[r].arrived :
            LET rho == run[r]
                p   == rho.arrived[i]
                InMedia(q)    == \E j \in DOMAIN rho.mediaPosts :
                                    rho.mediaPosts[j] = q
                InNonMedia(q) == \E j \in DOMAIN rho.nonMediaPosts :
                                    rho.nonMediaPosts[j] = q
                Copies == Cardinality({j \in DOMAIN rho.mediaPosts :
                                          rho.mediaPosts[j].id = p.id})
                        + Cardinality({j \in DOMAIN rho.nonMediaPosts :
                                          rho.nonMediaPosts[j].id = p.id})
            IN  (p.url # Undefined /\ ClassifiedAlone(rho, p))
                => /\ Copies = 1
                   /\ IF p.url \in ImageUrls THEN InMedia(p)
                      ELSE IF Fallback(p) \in ImageUrls
                      THEN InMedia([p EXCEPT !.url = Fallback(p)])
                      ELSE InNonMedia(p)

C17_Witness ==
    \E r \in Runs :
        /\ run[r].pc = "returned" /\ run[r].exit = "normal"
        /\ \E j \in DOMAIN run[r].result.mediaPosts :
              LET m == run[r].result.mediaPosts[j] IN
              /\ m.url = UrlJpeg /\ m.source = <<>>
              /\ run[r].arrived[m.id].url = UrlHtml
        /\ \E j \in DOMAIN run[r].result.nonMediaPosts :
              LET n == run[r].result.nonMediaPosts[j] IN
              /\ n.url = UrlHtml /\ n.source = UrlHtml /\ n.gif = UrlGif
              /\ ClassifiedAlone(run[r], n)

\* What a call of fetchPosts returns when it runs alone, as a function of
\* its limit and of the posts that reached it: the first `limit` posts with
\* an image address (primary or preview) are the media posts, all the
\* others, in order of arrival, the non-media posts.
AloneResult(limit, arrived) ==
    LET mediaIdx == {i \in DOMAIN arrived : IsMediaItem(arrived[i])}
        taken    == {i \in mediaIdx :
                        Cardinality({j \in mediaIdx : j < i}) < limit}
        others   == DOMAIN arrived \ taken
        Nth(S, k) == CHOOSE i \in S : Cardinality({j \in S : j < i}) = k - 1
        Resolve(p) == IF HasImageExt(UrlLower(p.url)) THEN p
                      ELSE [p EXCEPT !.url = PreviewUrl(p)]
    IN  [mediaPosts    |-> [k \in 1..Cardinality(taken) |->
                               Resolve(arrived[Nth(taken, k)])],
         nonMediaPosts |-> [k \in 1..Cardinality(others) |->
                               arrived[Nth(others, k)]]]

\* C12: with two calls of fetchPosts in flight, every step changes the
\* locals (mediaPosts, nonMediaPosts, cursor, requestCount and the rest) of
\* one call only, and each call returns what it returns when run alone
\* against the same responses.
C12_RunsAreIndependent ==
    /\ [](\A r \in ConcRuns :
            run[r].pc \in {"returned", "done"}
            => run[r].result =
                  IF run[r].exit = "normal"
                  THEN AloneResult(run[r].limit, run[r].arrived)
                  ELSE EmptyResult)
    /\ [][\E r \in ConcRuns :
            \A q \in ConcRuns \ {r} : run'[q] = run[q]]_vars

C12_Witness ==
    /\ \A r \in ConcRuns :
          /\ run[r].pc = "done" /\ run[r].exit = "normal"
          /\ run[r].overlapped = (r = 2)
          /\ run[r].requestCount = 2
    /\ Len(run[1].result.mediaPosts) = 1 /\ Len(run[1].result.nonMediaPosts) = 1
    /\ Len(run[2].result.mediaPosts) = 0 /\ Len(run[2].result.nonMediaPosts) = 2

\* C20 as stated: when displayMedia is called again while an earlier call
\* awaits fetchPosts, then once both calls have completed the feed container
\* and the non-media list hold the items of exactly one of the two calls.
C20_OneRunShown ==
    (/\ \A r \in ConcRuns : run[r].pc = "done" /\ run[r].tokenCalls = 1
     /\ \E r \in ConcRuns : run[r].overlapped)
    => \E r \in ConcRuns :
          /\ feedContainer = Rendered(r, run[r].result.mediaPosts)
          /\ nonMediaList = Rendered(r, run[r].result.nonMediaPosts)

====
